---- MODULE Spec2Model ----
(***************************************************************************)
(* Model of functions_mhd.py: the rule-based scale classifier              *)
(* (identify_data_type), the missingness counter (count_missings), the     *)
(* response recoder (define_as_missings, count_responses) and the data     *)
(* dictionary assembler (create_uniques_df, create_data_dict).             *)
(*                                                                         *)
(* The functions are pure.  A state holds the dataset the functions are    *)
(* applied to, the name of the last call, its argument and what it         *)
(* returned.  Python strings are TLA+ strings; the other cell values are   *)
(* tagged records, so that str() is a real conversion.                     *)
(***************************************************************************)
EXTENDS Integers, Sequences, FiniteSets, TLC

VARIABLES data, call, arg, ret, prev

vars == <<data, call, arg, ret, prev>>

----------------------------------------------------------------------------
(* Bounds *)

\* longest hand-picked prefix of a list of unique values given to the classifier
MaxBase == 3

\* most filler response options appended to that prefix (so that lists of
\* 2 and of more than 10 values occur)
MaxFill == 10

\* most rows of a dataset
MaxRows == 3

\* most columns of a dataset
MaxCols == 2

----------------------------------------------------------------------------
(* Python values *)

\* a str
PyStr(s) == [s |-> s]

\* an int
PyInt(n) == [n |-> n]

\* a float with an integral value, n.0
PyFloat(n) == [f |-> n]

\* float('nan'), numpy.nan
NaN == [nan |-> TRUE]

\* None
None == [none |-> TRUE]

\* pandas.isnull on a scalar
isnull(v) == v = NaN \/ v = None

Digit(d) == SubSeq("0123456789", d + 1, d + 1)

RECURSIVE NatToStr(_)
NatToStr(n) == IF n < 10 THEN Digit(n) ELSE NatToStr(n \div 10) \o Digit(n % 10)

IntToStr(n) == IF n < 0 THEN "-" \o NatToStr(0 - n) ELSE NatToStr(n)

\* the builtin str() on the values above
str(v) ==
    CASE DOMAIN v = {"s"} -> v.s
      [] DOMAIN v = {"n"} -> IntToStr(v.n)
      [] DOMAIN v = {"f"} -> IntToStr(v.f) \o ".0"
      [] DOMAIN v = {"nan"} -> "nan"
      [] DOMAIN v = {"none"} -> "None"

\* Python's  sub in s  on two strings
Contains(s, sub) ==
    \E i \in 1..(Len(s) - Len(sub) + 1) : SubSeq(s, i, i + Len(sub) - 1) = sub

\* Python's  x in lst  on a list
InList(x, lst) == \E i \in DOMAIN lst : lst[i] = x

\* Python's  set(lst)
ToSet(lst) == {lst[i] : i \in DOMAIN lst}

----------------------------------------------------------------------------
(* identify_data_type *)

ordinal_vals ==
    <<"Maybe", "Maybe/Not sure", "More than 1000", "Neither easy nor difficult",
      "I don't know">>

na_vals ==
    <<"Not applicable to me", "Not eligible for coverage / N/A",
      "Not applicable to me (I do not have a mental illness)", "n/a",
      "N/A because no employer provided coverage">>

numeric_vals == <<"2", "3", "4", "-1", "-2">>

uniques_str(uniques) == [i \in DOMAIN uniques |-> str(uniques[i])]

\* any(val in uniques_str for val in vals)
AnyIn(vals, strs) == \E i \in DOMAIN vals : InList(vals[i], strs)

\* a slip: the ordinal literals are looked at before the n/a literals and the
\* number of values
identify_data_type_ordinal_first(uniques) ==
    LET us == uniques_str(uniques) IN
    IF AnyIn(ordinal_vals, us) THEN "ordinal"
    ELSE IF AnyIn(na_vals, us) THEN "nominal"
    ELSE IF Len(us) = 2 \/ Len(us) > 10 THEN "nominal"
    ELSE IF ToSet(us) = {"Sometimes", "Never", "Always"} THEN "ordinal"
    ELSE IF ToSet(us) = {"0.0", "1.0", "nan"} THEN "nominal"
    ELSE IF InList("other", us) THEN "nominal"
    ELSE IF AnyIn(numeric_vals, us) THEN "ordinal"
    ELSE "nominal"

\* a slip: the test for "other" is missing
identify_data_type_no_other(uniques) ==
    LET us == uniques_str(uniques) IN
    IF AnyIn(na_vals, us) THEN "nominal"
    ELSE IF Len(us) = 2 \/ Len(us) > 10 THEN "nominal"
    ELSE IF AnyIn(ordinal_vals, us) THEN "ordinal"
    ELSE IF ToSet(us) = {"Sometimes", "Never", "Always"} THEN "ordinal"
    ELSE IF ToSet(us) = {"0.0", "1.0", "nan"} THEN "nominal"
    ELSE IF AnyIn(numeric_vals, us) THEN "ordinal"
    ELSE "nominal"

identify_data_type(uniques) ==
    LET us == uniques_str(uniques) IN
    IF AnyIn(na_vals, us) THEN "nominal"
    ELSE IF Len(us) = 2 \/ Len(us) > 10 THEN "nominal"
    ELSE IF AnyIn(ordinal_vals, us) THEN "ordinal"
    ELSE IF ToSet(us) = {"Sometimes", "Never", "Always"} THEN "ordinal"
    ELSE IF ToSet(us) = {"0.0", "1.0", "nan"} THEN "nominal"
    ELSE IF InList("other", us) THEN "nominal"
    ELSE IF AnyIn(numeric_vals, us) THEN "ordinal"
    ELSE "nominal"

----------------------------------------------------------------------------
(* Inputs of the classifier *)

\* values the rules of the classifier look at
CoreValues ==
    { PyStr("Not applicable to me"), PyStr("n/a"), PyStr("Maybe"), PyStr("I don't know"),
      PyStr("Sometimes"), PyStr("Never"), PyStr("Always"),
      PyFloat(0), PyFloat(1), NaN,
      PyStr("other"), PyStr("some other"),
      PyStr("2"), PyStr("3"), PyInt(2) }

\* plain response options no rule looks at
Filler(i) ==
    IF i = 1 THEN PyStr("Yes")
    ELSE IF i = 2 THEN PyStr("No")
    ELSE PyStr("option " \o IntToStr(i))

Fillers(k) == [i \in 1..k |-> Filler(i)]

\* lists without repetition, as Series.unique() returns them
IsUnique(lst) == \A i, j \in DOMAIN lst : lst[i] = lst[j] => i = j

BaseLists ==
    UNION { {b \in [1..n -> CoreValues] : IsUnique(b)} : n \in 0..MaxBase }

----------------------------------------------------------------------------
(* The classifier applied to a list of unique values *)

NoData == [columns |-> <<>>, nrows |-> 0, cells |-> <<>>]

\* the non-empty lists of unique values the classifier is given
UniquesLists ==
    { base \o Fillers(k) : base \in BaseLists, k \in 0..MaxFill } \ { <<>> }

InitClassifier ==
    /\ data = NoData
    /\ call = "none"
    /\ arg \in UniquesLists
    /\ ret = None
    /\ prev = None

IdentifyDataType ==
    /\ call = "none"
    /\ call' = "identify_data_type"
    /\ ret' = identify_data_type(arg)
    /\ UNCHANGED <<data, arg, prev>>

NextClassifier == IdentifyDataType

SpecClassifier == InitClassifier /\ [][NextClassifier]_vars

----------------------------------------------------------------------------
(* Data frames *)

\* A DataFrame: its column labels, the length of its index, and per column the
\* cells from the first row to the last.  Column labels may repeat.
DataFrame(columns, nrows, cells) == [columns |-> columns, nrows |-> nrows, cells |-> cells]

\* len(data)
len(df) == df.nrows

\* a raised exception
Raise(name) == [error |-> name]

IsError(r) == DOMAIN r = {"error"}

\* a table of records: its rows, each a function from column name to value
Table(rows) == [rows |-> rows]

GCD(a, b) == CHOOSE d \in 1..(IF a > b THEN a ELSE b) :
                /\ a % d = 0
                /\ b % d = 0
                /\ \A e \in (d + 1)..(IF a > b THEN a ELSE b) : ~(a % e = 0 /\ b % e = 0)

\* the value of a / b for integers a >= 0 and b >= 0: an exact fraction in
\* lowest terms, and NaN for 0 / 0 (pandas' division of a Series by 0)
Divide(a, b) ==
    IF b = 0 THEN NaN
    ELSE IF a = 0 THEN [num |-> 0, den |-> 1]
    ELSE [num |-> a \div GCD(a, b), den |-> b \div GCD(a, b)]

\* Series.unique(): the distinct values in order of first appearance
RECURSIVE unique(_)
unique(series) ==
    IF series = <<>> THEN <<>>
    ELSE LET init == SubSeq(series, 1, Len(series) - 1)
             last == series[Len(series)]
         IN  IF InList(last, init) THEN unique(init) ELSE Append(unique(init), last)

\* the positions of the columns labelled feature
Labelled(df, feature) == {i \in DOMAIN df.columns : df.columns[i] = feature}

----------------------------------------------------------------------------
(* create_uniques_df *)

\* data[feature] is a Series when feature labels one column; when it labels
\* several, data[feature] is a DataFrame of these columns
IsSeries(df, feature) == Cardinality(Labelled(df, feature)) = 1

\* the cells of the Series data[feature]
getitem(df, feature) == df.cells[CHOOSE i \in Labelled(df, feature) : TRUE]

\* a slip: the columns are read by position, so a repeated label does not raise
create_uniques_df_by_position(df) ==
    Table([i \in DOMAIN df.columns |->
             [c \in {"variable", "unique_values", "uniques_count"} |->
                CASE c = "variable" -> df.columns[i]
                  [] c = "unique_values" -> unique(df.cells[i])
                  [] c = "uniques_count" -> Len(unique(df.cells[i]))]])

create_uniques_df(df) ==
    \* a DataFrame has no attribute unique
    IF \E i \in DOMAIN df.columns : ~IsSeries(df, df.columns[i])
    THEN Raise("AttributeError")
    ELSE Table([i \in DOMAIN df.columns |->
                  [c \in {"variable", "unique_values", "uniques_count"} |->
                     CASE c = "variable" -> df.columns[i]
                       [] c = "unique_values" -> unique(getitem(df, df.columns[i]))
                       [] c = "uniques_count" -> Len(unique(getitem(df, df.columns[i])))]])

----------------------------------------------------------------------------
(* count_missings *)

\* data.isnull().sum() for one column
NullCount(series) == Cardinality({r \in DOMAIN series : isnull(series[r])})

\* a slip: the cells that are not null are counted
count_missings_notnull(df, response_cat) ==
    Table([i \in DOMAIN df.columns |->
             [c \in {"variable", response_cat \o "_count", response_cat \o "_percent"} |->
                IF c = "variable" THEN df.columns[i]
                ELSE IF c = response_cat \o "_count"
                     THEN Len(df.cells[i]) - NullCount(df.cells[i])
                ELSE Divide(Len(df.cells[i]) - NullCount(df.cells[i]), len(df))]])

count_missings(df, response_cat) ==
    Table([i \in DOMAIN df.columns |->
             [c \in {"variable", response_cat \o "_count", response_cat \o "_percent"} |->
                IF c = "variable" THEN df.columns[i]
                ELSE IF c = response_cat \o "_count" THEN NullCount(df.cells[i])
                ELSE Divide(NullCount(df.cells[i]), len(df))]])

----------------------------------------------------------------------------
(* define_as_missings, count_responses *)

dk_response == <<"I don't know">>

\* a slip: the two lists of n/a literals have drifted apart
na_response_drifted ==
    <<"Not applicable to me", "Not eligible for coverage / N/A",
      "Not applicable to me (I do not have a mental illness)",
      "N/A because no employer provided coverage">>

na_response ==
    <<"Not applicable to me", "Not eligible for coverage / N/A",
      "Not applicable to me (I do not have a mental illness)", "n/a",
      "N/A because no employer provided coverage">>

\* a slip: the test of the tag is inverted
response_inverted(response_cat) == IF response_cat # "dk" THEN dk_response ELSE na_response

response(response_cat) == IF response_cat = "dk" THEN dk_response ELSE na_response

\* a slip: fillna without inplace=True leaves the copy as it was
fillna_not_inplace(v) == v

\* DataFrame.fillna("missing", inplace=True) on one cell
fillna(v) == IF isnull(v) THEN PyStr("missing") ELSE v

\* DataFrame.replace(to_replace, np.nan) on one cell
replace(v, to_replace) ==
    IF \E i \in DOMAIN to_replace : v = PyStr(to_replace[i]) THEN NaN ELSE v

define_as_missings(df, response_cat) ==
    DataFrame(df.columns, df.nrows,
              [i \in DOMAIN df.cells |->
                 [r \in DOMAIN df.cells[i] |->
                    replace(fillna(df.cells[i][r]), response(response_cat))]])

count_responses(df, response_cat) ==
    count_missings(define_as_missings(df, response_cat), response_cat)

----------------------------------------------------------------------------
(* create_data_dict *)

\* Series.str.contains(pat, regex=True) for a pattern that is an alternation
\* of literals: re.search finds one of them somewhere in the string
str_contains(s, alternatives) == \E i \in DOMAIN alternatives : Contains(s, alternatives[i])

ratio_pattern == <<"count_", "_len", "suicide_rate">>

\* a slip: the rows are joined whatever their keys
RECURSIVE JoinRow_any_key(_, _, _)
JoinRow_any_key(l, right, on) ==
    IF right = <<>> THEN <<>>
    ELSE <<Head(right) @@ l>> \o JoinRow_any_key(l, Tail(right), on)

\* the rows of right whose key equals that of the row l, each joined to l
RECURSIVE JoinRow(_, _, _)
JoinRow(l, right, on) ==
    IF right = <<>> THEN <<>>
    ELSE (IF Head(right)[on] = l[on] THEN <<l @@ Head(right)>> ELSE <<>>)
         \o JoinRow(l, Tail(right), on)

RECURSIVE JoinRows(_, _, _)
JoinRows(left, right, on) ==
    IF left = <<>> THEN <<>>
    ELSE JoinRow(Head(left), right, on) \o JoinRows(Tail(left), right, on)

\* pd.merge(left, right, on=on): the inner join, one row for every pair of a
\* left and a right row with equal keys (the other columns of the two tables
\* have different names here)
merge(left, right, on) == Table(JoinRows(left.rows, right.rows, on))

\* a slip: 'age' is searched for in the name like the other patterns
data_types_age_contained(variable, uniques) ==
    IF Contains(variable, "age") THEN "ratio"
    ELSE IF str_contains(variable, ratio_pattern) THEN "ratio"
    ELSE identify_data_type(uniques)

\* the data type of a variable after the manual change to 'ratio'
data_types(variable, uniques) ==
    IF variable = "age" THEN "ratio"
    ELSE IF str_contains(variable, ratio_pattern) THEN "ratio"
    ELSE identify_data_type(uniques)

create_data_dict(df) ==
    LET df_uniques == create_uniques_df(df) IN
    IF IsError(df_uniques) THEN df_uniques
    ELSE
      LET typed == Table([i \in DOMAIN df_uniques.rows |->
                            df_uniques.rows[i] @@
                            [c \in {"data_types"} |->
                               data_types(df_uniques.rows[i]["variable"],
                                          df_uniques.rows[i]["unique_values"])]])
          df_missings == count_missings(df, "missing")
          with_missings == merge(typed, df_missings, "variable")
          df_dk == count_responses(df, "dk")
          with_dk == merge(with_missings, df_dk, "variable")
          df_not_app == count_responses(df, "n/a")
      IN  merge(with_dk, df_not_app, "variable")

----------------------------------------------------------------------------
(* Datasets *)

\* column names the manual change to 'ratio' looks at, and names it does not
RatioNames ==
    { "age", "page", "count_diagnosed_illnesses", "account_type", "comment_len",
      "comment_length", "country_suicide_rate_2016", "gender" }

\* the cells of the datasets whose column names vary
FewValues == { PyStr("n/a"), PyStr("Maybe") }

\* the cells of the datasets whose column names are fixed
CellValues ==
    { NaN, PyStr("I don't know"), PyStr("n/a"), PyStr("Not applicable to me"), PyInt(2) }

\* the name of the i-th survey question
Question(i) == "question_" \o IntToStr(i)

\* datasets of one row with any column names, repeated ones too
NamedDatasets ==
    UNION { { DataFrame(names, 1, [i \in 1..c |-> <<v[i]>>]) :
                names \in [1..c -> RatioNames], v \in [1..c -> FewValues] } :
            c \in 1..MaxCols }

\* datasets with any cells and different column names: one column of no to
\* MaxRows rows, or several columns of no to two rows
FilledDatasets ==
    UNION { { DataFrame([i \in 1..c |-> Question(i)], n, cells) :
                cells \in [1..c -> [1..n -> CellValues]] } :
            <<c, n>> \in { cn \in (1..MaxCols) \X (0..MaxRows) : cn[1] = 1 \/ cn[2] <= 2 } }

Datasets == NamedDatasets \cup FilledDatasets

\* the response_cat arguments: the two tags of count_responses, and the default
\* of count_missings, which define_as_missings does not know
Tags == { "dk", "n/a", "missing" }

----------------------------------------------------------------------------
(* The functions applied to a dataset *)

Init ==
    /\ data \in Datasets
    /\ call = "none"
    /\ arg = None
    /\ ret = None
    /\ prev = None

CreateUniquesDf ==
    /\ call = "none"
    /\ call' = "create_uniques_df"
    /\ ret' = create_uniques_df(data)
    /\ UNCHANGED <<data, arg, prev>>

CountMissings ==
    /\ call = "none"
    /\ \E response_cat \in Tags :
        /\ call' = "count_missings"
        /\ arg' = response_cat
        /\ ret' = count_missings(data, response_cat)
    /\ UNCHANGED <<data, prev>>

DefineAsMissings ==
    /\ call = "none"
    /\ \E response_cat \in Tags :
        /\ call' = "define_as_missings"
        /\ arg' = response_cat
        /\ ret' = define_as_missings(data, response_cat)
    /\ UNCHANGED <<data, prev>>

\* define_as_missings applied to what define_as_missings returned, same tag
DefineAsMissingsAgain ==
    /\ call = "define_as_missings"
    /\ call' = "define_as_missings twice"
    /\ prev' = ret
    /\ ret' = define_as_missings(ret, arg)
    /\ UNCHANGED <<data, arg>>

CountResponses ==
    /\ call = "none"
    /\ \E response_cat \in Tags :
        /\ call' = "count_responses"
        /\ arg' = response_cat
        /\ ret' = count_responses(data, response_cat)
    /\ UNCHANGED <<data, prev>>

CreateDataDict ==
    /\ call = "none"
    /\ call' = "create_data_dict"
    /\ ret' = create_data_dict(data)
    /\ UNCHANGED <<data, arg, prev>>

Next ==
    \/ CreateUniquesDf
    \/ CountMissings
    \/ DefineAsMissings
    \/ DefineAsMissingsAgain
    \/ CountResponses
    \/ CreateDataDict

Spec == Init /\ [][Next]_vars

----------------------------------------------------------------------------
(* The rules of the classifier as the specification states them (4.2) *)

\* the string representations of a value set
StrSet(uniques) == ToSet(uniques_str(uniques))

\* rule 6 read as "some value contains the literal other (or equals it)"
OtherContained(uniques) == \E s \in StrSet(uniques) : Contains(s, "other")

\* rule 6 read as "some value equals the literal other"
OtherEqualled(uniques) == "other" \in StrSet(uniques)

\* rule k matches the value set; other is the reading of rule 6
RuleMatches(k, uniques, other) ==
    CASE k = 1 -> StrSet(uniques) \cap ToSet(na_vals) # {}
      [] k = 2 -> Cardinality(ToSet(uniques)) = 2 \/ Cardinality(ToSet(uniques)) > 10
      [] k = 3 -> StrSet(uniques) \cap ToSet(ordinal_vals) # {}
      [] k = 4 -> StrSet(uniques) = {"Sometimes", "Never", "Always"}
      [] k = 5 -> StrSet(uniques) = {"0.0", "1.0", "nan"}
      [] k = 6 -> other
      [] k = 7 -> StrSet(uniques) \cap {"2", "3", "4", "-1", "-2"} # {}
      [] k = 8 -> TRUE

RuleLabel(k) == IF k \in {3, 4, 7} THEN "ordinal" ELSE "nominal"

\* the lowest-numbered rule that matches
FirstMatch(uniques, other) ==
    CHOOSE k \in 1..8 :
        /\ RuleMatches(k, uniques, other)
        /\ \A j \in 1..(k - 1) : ~RuleMatches(j, uniques, other)

NoneOfRules1To5(uniques) == \A k \in 1..5 : ~RuleMatches(k, uniques, FALSE)

\* C1 as claimed: identify_data_type returns 'nominal' or 'ordinal', the label
\* of the lowest-numbered matching rule of 4.2, where rule 6 matches when a
\* value contains or equals "other".
C1_AsClaimed ==
    call = "identify_data_type" =>
        /\ ret \in {"nominal", "ordinal"}
        /\ ret = RuleLabel(FirstMatch(arg, OtherContained(arg)))

\* C1 amended: for every non-empty list of distinct values identify_data_type
\* returns 'nominal' or 'ordinal' (never 'ratio'), the label of the
\* lowest-numbered matching rule of 4.2 with rule 6 matching only a value
\* equal to "other"; a value set with an n/a literal and an ordinal literal is
\* 'nominal', and so is a value set of exactly 2 or more than 10 values with an
\* ordinal literal.
C1_FirstMatchWins ==
    call = "identify_data_type" =>
        /\ ret \in {"nominal", "ordinal"}
        /\ ret = RuleLabel(FirstMatch(arg, OtherEqualled(arg)))
        /\ RuleMatches(1, arg, FALSE) /\ RuleMatches(3, arg, FALSE) => ret = "nominal"
        /\ RuleMatches(2, arg, FALSE) /\ RuleMatches(3, arg, FALSE) => ret = "nominal"

\* the classifier was given {'Not applicable to me', 'Maybe', 'Yes', 'No'}
\* (rules 1 and 3 both match) and said 'nominal'
C1_Witness ==
    /\ call = "identify_data_type"
    /\ arg = <<PyStr("Not applicable to me"), PyStr("Maybe"), PyStr("Yes"), PyStr("No")>>
    /\ ret = "nominal"

\* C9 as claimed: when none of rules 1-5 matches and some value contains or
\* equals "other", the result is 'nominal', also when "other" is only a
\* substring of a value.
C9_AsClaimed ==
    call = "identify_data_type" /\ NoneOfRules1To5(arg) /\ OtherContained(arg)
        => ret = "nominal"

\* C9 amended: when none of rules 1-5 matches and some value equals "other",
\* the result is 'nominal' even if rule 7 would give 'ordinal'; a value that
\* only contains "other" as a substring does not trigger rule 6, and rules 7
\* and 8 then decide.
C9_OtherEqualsOnly ==
    call = "identify_data_type" /\ NoneOfRules1To5(arg) =>
        /\ OtherEqualled(arg) => ret = "nominal"
        /\ ~OtherEqualled(arg) =>
              ret = (IF RuleMatches(7, arg, FALSE) THEN "ordinal" ELSE "nominal")

\* rule 6 shadowed rule 7: "other" and a numeric-looking string, 'nominal'
C9_Witness ==
    /\ call = "identify_data_type"
    /\ NoneOfRules1To5(arg)
    /\ OtherEqualled(arg)
    /\ RuleMatches(7, arg, FALSE)
    /\ ret = "nominal"

----------------------------------------------------------------------------
(* The response recoder *)

\* the positions <<column, row>> of the cells of a data frame
Positions(df) == {p \in (DOMAIN df.cells) \X (1..df.nrows) : TRUE}

Cell(df, p) == df.cells[p[1]][p[2]]

\* the null pattern of a data frame
NullCells(df) == {p \in Positions(df) : isnull(Cell(df, p))}

\* the response literals of a tag as 4.4 states them: "I don't know" for dk,
\* the n/a literals of the classifier for any other tag
TagLiterals(tag) == IF tag = "dk" THEN {"I don't know"} ELSE ToSet(na_vals)

\* the cells that hold one of the tag's response literals
LiteralCells(df, tag) ==
    {p \in Positions(df) : \E l \in TagLiterals(tag) : Cell(df, p) = PyStr(l)}

\* C2 as claimed: in the result of define_as_missings for the tag dk or n/a,
\* the cells that held a literal of the tag are null, the cells that were null
\* are null, and all other cells are not null.
C2_AsClaimed ==
    call = "define_as_missings" /\ arg \in {"dk", "n/a"} =>
        NullCells(ret) = LiteralCells(data, arg) \cup NullCells(data)

\* C2 amended: in the result of define_as_missings for the tag dk or n/a,
\* exactly the cells that held a literal of the tag are null; a cell that was
\* null in the input holds the string "missing" (it is not null), and every
\* other cell holds its value of the input.
C2_LiteralsBecomeNull ==
    call = "define_as_missings" /\ arg \in {"dk", "n/a"} =>
        /\ ret.columns = data.columns
        /\ Positions(ret) = Positions(data)
        /\ NullCells(ret) = LiteralCells(data, arg)
        /\ \A p \in NullCells(data) : Cell(ret, p) = PyStr("missing")
        /\ \A p \in Positions(data) \ (NullCells(data) \cup LiteralCells(data, arg)) :
              Cell(ret, p) = Cell(data, p)

\* a dataset with a null cell, a cell with an n/a literal and another cell was
\* recoded for the tag n/a
C2_Witness ==
    /\ call = "define_as_missings"
    /\ arg = "n/a"
    /\ NullCells(data) # {}
    /\ LiteralCells(data, "n/a") # {}
    /\ Positions(data) \ (NullCells(data) \cup LiteralCells(data, "n/a")) # {}
    /\ NullCells(ret) = LiteralCells(data, "n/a")

\* C3 as claimed: the null cells after define_as_missings was applied twice
\* with the same tag are the null cells after it was applied once.
C3_AsClaimed ==
    call = "define_as_missings twice" => NullCells(ret) = NullCells(prev)

\* C3 amended: after define_as_missings was applied twice with the same tag no
\* cell is null (the cells the first application made null hold "missing");
\* the null pattern is that of the first application exactly when no cell of
\* the dataset held a literal of the tag.
C3_SecondPassClearsNulls ==
    call = "define_as_missings twice" =>
        /\ NullCells(ret) = {}
        /\ \A p \in NullCells(prev) : Cell(ret, p) = PyStr("missing")
        /\ (NullCells(ret) = NullCells(prev)) <=> (LiteralCells(data, arg) = {})

\* define_as_missings was applied twice to a dataset with a "don't know" cell
C3_Witness ==
    /\ call = "define_as_missings twice"
    /\ arg = "dk"
    /\ LiteralCells(data, "dk") # {}
    /\ NullCells(prev) = LiteralCells(data, "dk")
    /\ NullCells(ret) = {}

\* C4: define_as_missings, and count_responses which calls it, fail with an
\* error for a tag other than dk and n/a.
C4_UnknownTagFails ==
    call \in {"define_as_missings", "count_responses"} /\ arg \notin {"dk", "n/a"}
        => IsError(ret)

----------------------------------------------------------------------------
(* The missingness counter *)

\* C8: for a dataset of at least one row and any tag, count_missings returns
\* for each column a <tag>_count that is the number of null cells of the
\* column, between 0 and the number of rows, and a <tag>_percent that is the
\* count divided by the number of rows, between 0 and 1.
C8_CountAndPercent ==
    call = "count_missings" /\ len(data) >= 1 =>
        /\ Len(ret.rows) = Len(data.columns)
        /\ \A i \in DOMAIN data.columns :
            LET row == ret.rows[i]
                count == row[arg \o "_count"]
                percent == row[arg \o "_percent"]
            IN  /\ row["variable"] = data.columns[i]
                /\ count = Cardinality({p \in NullCells(data) : p[1] = i})
                /\ 0 <= count /\ count <= len(data)
                /\ percent.den > 0
                /\ percent.num * len(data) = count * percent.den
                /\ 0 <= percent.num /\ percent.num <= percent.den

\* the nulls of a column of three rows with one null cell were counted
C8_Witness ==
    /\ call = "count_missings"
    /\ len(data) = 3
    /\ \E i \in DOMAIN ret.rows :
        /\ ret.rows[i][arg \o "_count"] = 1
        /\ ret.rows[i][arg \o "_percent"] = [num |-> 1, den |-> 3]

----------------------------------------------------------------------------
(* The data dictionary *)

\* the rows of a data dictionary with the variable name
RowsOf(dict, name) == {k \in DOMAIN dict.rows : dict.rows[k]["variable"] = name}

\* C5: for a dataset with unique column names create_data_dict returns a table
\* with as many rows as the dataset has columns, and each column name is the
\* variable of exactly one row.
C5_OneRowPerColumn ==
    call = "create_data_dict" /\ IsUnique(data.columns) =>
        /\ ~IsError(ret)
        /\ Len(ret.rows) = Len(data.columns)
        /\ \A i \in DOMAIN data.columns : Cardinality(RowsOf(ret, data.columns[i])) = 1
        /\ \A k \in DOMAIN ret.rows : InList(ret.rows[k]["variable"], data.columns)

\* the data dictionary of a dataset of two differently named columns
C5_Witness ==
    /\ call = "create_data_dict"
    /\ Len(data.columns) = 2
    /\ IsUnique(data.columns)
    /\ Len(ret.rows) = 2

\* C6: when a column name is repeated in the dataset, create_data_dict aborts
\* with an error; it never returns a data dictionary with more rows than the
\* dataset has columns.
C6_RepeatedNameAborts ==
    call = "create_data_dict" =>
        /\ ~IsUnique(data.columns) => IsError(ret)
        /\ ~IsError(ret) => Len(ret.rows) <= Len(data.columns)

\* create_data_dict was called with two columns of the same name and raised
C6_Witness ==
    /\ call = "create_data_dict"
    /\ Len(data.columns) = 2
    /\ data.columns[1] = data.columns[2]
    /\ IsError(ret)

\* the name patterns of the ratio override read as shell patterns: count_* is
\* a name that starts with count_, *_len one that ends with _len, and
\* *suicide_rate* one that contains suicide_rate
StartsWith(s, prefix) == Len(s) >= Len(prefix) /\ SubSeq(s, 1, Len(prefix)) = prefix

EndsWith(s, suffix) ==
    Len(s) >= Len(suffix) /\ SubSeq(s, Len(s) - Len(suffix) + 1, Len(s)) = suffix

MatchesRatioGlob(name) ==
    \/ name = "age"
    \/ StartsWith(name, "count_")
    \/ EndsWith(name, "_len")
    \/ Contains(name, "suicide_rate")

\* the name patterns read as substrings, as 3 states them
ContainsRatioPattern(name) ==
    \/ name = "age"
    \/ Contains(name, "count_")
    \/ Contains(name, "_len")
    \/ Contains(name, "suicide_rate")

\* what the rules of 4.2 give for the unique values of a row
Classified(row) == RuleLabel(FirstMatch(row["unique_values"], OtherEqualled(row["unique_values"])))

\* C7 as claimed: a column named age or matching count_*, *_len or
\* *suicide_rate* has the data type 'ratio', and every column whose name
\* matches none of these has the 'nominal' or 'ordinal' of the classifier.
C7_AsClaimed ==
    call = "create_data_dict" /\ ~IsError(ret) =>
        \A k \in DOMAIN ret.rows :
            LET row == ret.rows[k] IN
            IF MatchesRatioGlob(row["variable"])
            THEN row["data_types"] = "ratio"
            ELSE row["data_types"] = Classified(row)

\* C7 amended: a column named exactly age, or whose name contains count_, _len
\* or suicide_rate anywhere, has the data type 'ratio' whatever the classifier
\* says of its values; every other column has the 'nominal' or 'ordinal' of the
\* classifier.
C7_RatioOverride ==
    call = "create_data_dict" /\ ~IsError(ret) =>
        \A k \in DOMAIN ret.rows :
            LET row == ret.rows[k] IN
            IF ContainsRatioPattern(row["variable"])
            THEN row["data_types"] = "ratio"
            ELSE /\ row["data_types"] = Classified(row)
                 /\ row["data_types"] \in {"nominal", "ordinal"}

\* a column named age whose values the classifier calls 'ordinal' is 'ratio',
\* next to a column that keeps the 'ordinal' of the classifier
C7_Witness ==
    /\ call = "create_data_dict"
    /\ ~IsError(ret)
    /\ \E k \in DOMAIN ret.rows :
        /\ ret.rows[k]["variable"] = "age"
        /\ Classified(ret.rows[k]) = "ordinal"
        /\ ret.rows[k]["data_types"] = "ratio"
    /\ \E k \in DOMAIN ret.rows :
        /\ ret.rows[k]["variable"] = "gender"
        /\ ret.rows[k]["data_types"] = "ordinal"

\* C10: define_as_missings and rule 1 of the classifier use the same n/a
\* literals, so in a data dictionary a variable with n/a_count > 0 is 'nominal'
\* or 'ratio', never 'ordinal', and a variable whose values match rule 1 has
\* n/a_count > 0.
C10_NaLiteralsInSync ==
    /\ ToSet(na_response) = ToSet(na_vals)
    /\ call = "create_data_dict" /\ ~IsError(ret) =>
        \A k \in DOMAIN ret.rows :
            LET row == ret.rows[k] IN
            /\ row["n/a_count"] > 0 => row["data_types"] \in {"nominal", "ratio"}
            /\ RuleMatches(1, row["unique_values"], FALSE) => row["n/a_count"] > 0

\* a variable with an n/a response, an ordinal literal and a third value:
\* n/a_count is 1 and the data type 'nominal'
C10_Witness ==
    /\ call = "create_data_dict"
    /\ ~IsError(ret)
    /\ \E k \in DOMAIN ret.rows :
        /\ ret.rows[k]["n/a_count"] = 1
        /\ ret.rows[k]["uniques_count"] = 3
        /\ RuleMatches(3, ret.rows[k]["unique_values"], FALSE)
        /\ ret.rows[k]["data_types"] = "nominal"

====
